---- MODULE Spec2Model ----
(***************************************************************************)
(* The MCP subsystem of llm-tool-hub: the JSON-RPC server                  *)
(* (integrations/mcp_server.py), the tool adapter                          *)
(* (integrations/mcp_adapter.py) and the stdio transport                   *)
(* (transports/base_transport.py, transports/stdio_transport.py).          *)
(*                                                                         *)
(* JSON values are tagged records, so that the code's isinstance tests,    *)
(* truthiness tests and dict lookups can be computed as Python computes    *)
(* them.  An f-string is the tuple of its pieces, so that "the message     *)
(* contains the method name" is membership in the tuple.                   *)
(***************************************************************************)
EXTENDS Integers, Sequences, FiniteSets, TLC

VARIABLES
    running,      \* BaseTransport._running
    queue,        \* StdioTransport._message_queue: <<[line, msg]>>
    stdout,       \* what was written to sys.stdout: <<[by, line, msg, eol]>>
    lines,        \* the lines read from sys.stdin so far (history)
    rpc,          \* position of the _read_loop task
    mpc,          \* position of the task executing ToolHubMCPServer.run
    cur,          \* the message the message loop holds: [line, msg] or NoMsg
    hmsg,         \* the argument of the last _handle_message call (or NoCall)
    hout,         \* what that call did: response, handler, tools run, exception
    startCalls,   \* number of transport.start() calls
    stopCalls,    \* number of transport.stop() calls
    exit,         \* how run() ended: "none", "returned", "cancelled"
    received,     \* the line numbers of the messages receive() returned, in order
    passed,       \* the list of tools the adapter (or server) was constructed with
    AdapterTools, \* MCPAdapter.tools: [keys, at], built once by the constructor
    call,         \* the last direct call of an adapter or tool method (or NoCall)
    ret,          \* the outcome of that call
    fs,           \* the file system: the content of each file, by location
    unsafe_mode   \* BaseFileSystemTool.unsafe_mode of the file tools

\* the variables the transport and the server's run() do not touch
apiVars == <<passed, AdapterTools, call, ret, fs, unsafe_mode>>

vars == <<running, queue, stdout, lines, rpc, mpc, cur, hmsg, hout,
          startCalls, stopCalls, exit, received, apiVars>>

----------------------------------------------------------------------------
(* JSON values and the Python operations the code applies to them *)

JNull == [t |-> "null"]
JInt(n) == [t |-> "int", v |-> n]
JStr(s) == [t |-> "str", v |-> s]
JArr(s) == [t |-> "arr", v |-> s]
JObj(f) == [t |-> "obj", v |-> f]

EmptyDict == [k \in {} |-> JNull]

\* isinstance(x, dict)
IsDict(x) == x.t = "obj"

\* bool(x), as `if not x` computes it
Truthy(x) ==
    CASE x.t = "null" -> FALSE
      [] x.t = "int"  -> x.v # 0
      [] x.t = "str"  -> x.v # ""
      [] x.t = "arr"  -> Len(x.v) > 0
      [] x.t = "obj"  -> DOMAIN x.v # {}

\* hash(x) succeeds: lists and dicts are unhashable
Hashable(x) == x.t \in {"null", "int", "str"}

\* type(x).__name__
TypeName(x) ==
    CASE x.t = "null" -> "NoneType"
      [] x.t = "int"  -> "int"
      [] x.t = "str"  -> "str"
      [] x.t = "arr"  -> "list"
      [] x.t = "obj"  -> "dict"

\* str(x) inside an f-string
PyStr(x) ==
    CASE x.t = "null" -> "None"
      [] x.t = "int"  -> ToString(x.v)
      [] x.t = "str"  -> x.v
      [] x.t = "arr"  -> "[...]"
      [] x.t = "obj"  -> "{...}"

\* d.get(key, default) on a dict d
Get(d, key, default) == IF key \in DOMAIN d.v THEN d.v[key] ELSE default

Range(s) == {s[i] : i \in DOMAIN s}

----------------------------------------------------------------------------
(* Outcomes of a call: a returned value or a raised exception, with the    *)
(* set of tools whose run body was executed on the way.                    *)

Ok(value, ran) == [ok |-> TRUE, value |-> value, ran |-> ran]
Raise(type, text, ran) == [ok |-> FALSE, type |-> type, text |-> text, ran |-> ran]

\* x.get(...) on a value that is not a dict
AttributeError(x) ==
    Raise("AttributeError", <<"'", TypeName(x), "' object has no attribute 'get'">>, {})

\* the exception classes that `except Exception` catches
ExceptionTypes == {"AttributeError", "TypeError", "ValueError", "RuntimeError"}

NoExc == [ok |-> TRUE]

----------------------------------------------------------------------------
(* The tools the server is built with: the two tools of the adapter's      *)
(* tests.  `accepts` and `needs` are the keyword parameters of run and     *)
(* those among them without a default.                                     *)

DummyTool ==
    [name |-> "dummy_tool",
     description |-> "A dummy tool for testing",
     parameters |-> [type |-> "object",
                     properties |-> [query |-> "string", limit |-> "integer"],
                     required |-> <<"query">>],
     accepts |-> {"query", "limit"},
     needs |-> {"query"}]

ErrorTool ==
    [name |-> "error_tool",
     description |-> "A tool that raises errors",
     parameters |-> [type |-> "object",
                     properties |-> [k \in {} |-> ""],
                     required |-> <<>>],
     accepts |-> {},
     needs |-> {}]

\* a second tool that calls itself "dummy_tool"
OtherDummyTool ==
    [name |-> "dummy_tool",
     description |-> "Another dummy tool",
     parameters |-> [type |-> "object",
                     properties |-> [query |-> "string", limit |-> "integer"],
                     required |-> <<"query">>],
     accepts |-> {"query", "limit"},
     needs |-> {"query"}]

\* a tool whose run takes no arguments and fails in its body with a
\* TypeError: len(None)
TypeErrorTool ==
    [name |-> "type_error_tool",
     description |-> "A tool that raises TypeError",
     parameters |-> [type |-> "object",
                     properties |-> [k \in {} |-> ""],
                     required |-> <<>>],
     accepts |-> {},
     needs |-> {}]

\* a tool whose schema requires `query` while its run has a default for
\* it: def run(self, query: str = "default")
LenientTool ==
    [name |-> "lenient_tool",
     description |-> "A tool whose required parameter has a default",
     parameters |-> [type |-> "object",
                     properties |-> [query |-> "string"],
                     required |-> <<"query">>],
     accepts |-> {"query"},
     needs |-> {}]

\* the list given to ToolHubMCPServer(tools, transport)
ToolsPassed == <<DummyTool, ErrorTool>>

\* the body of a tool's run, once its arguments are bound
RunBody(tool, kwargs) ==
    CASE tool.name = "dummy_tool" ->
            Ok(<<"Results for '", PyStr(kwargs["query"]), "' (limit: ",
                 PyStr(IF "limit" \in DOMAIN kwargs THEN kwargs["limit"] ELSE JInt(5)),
                 ")">>, {tool.name})
      [] tool.name = "error_tool" ->
            Raise("RuntimeError", <<"Test error">>, {tool.name})
      [] tool.name = "type_error_tool" ->
            Raise("TypeError", <<"object of type 'NoneType' has no len()">>, {tool.name})
      [] tool.name = "lenient_tool" ->
            Ok(<<"Lenient: ",
                 PyStr(IF "query" \in DOMAIN kwargs THEN kwargs["query"]
                                                    ELSE JStr("default"))>>,
               {tool.name})

\* tool.run(**arguments): Python binds the keyword arguments, then runs the body
ToolRun(tool, arguments) ==
    IF ~IsDict(arguments)
    THEN Raise("TypeError",
               <<"argument after ** must be a mapping, not ", TypeName(arguments)>>, {})
    ELSE IF DOMAIN arguments.v \ tool.accepts # {}
    THEN Raise("TypeError", <<"run() got an unexpected keyword argument">>, {})
    ELSE IF tool.needs \ DOMAIN arguments.v # {}
    THEN Raise("TypeError", <<"run() missing required positional argument">>, {})
    ELSE RunBody(tool, arguments.v)

----------------------------------------------------------------------------
(* MCPAdapter *)

RECURSIVE DictKeys_all(_)
\* mutant of DictKeys: a name passed again is a key again
DictKeys_all(ts) ==
    IF ts = <<>> THEN <<>>
    ELSE Append(DictKeys_all(SubSeq(ts, 1, Len(ts) - 1)), ts[Len(ts)].name)

RECURSIVE DictKeys(_)
\* the keys of {tool.name: tool for tool in ts}, in insertion order
DictKeys(ts) ==
    IF ts = <<>> THEN <<>>
    ELSE LET front == DictKeys(SubSeq(ts, 1, Len(ts) - 1))
             last == ts[Len(ts)].name
         IN IF last \in Range(front) THEN front ELSE Append(front, last)

\* MCPAdapter.__init__: self.tools, a dict from name to tool (the last tool
\* of a name wins), kept as its keys in order and its lookup
MCPAdapter_init(tools) ==
    [keys |-> DictKeys(tools),
     at |-> [n \in {tools[i].name : i \in DOMAIN tools} |->
                tools[CHOOSE i \in DOMAIN tools :
                    /\ tools[i].name = n
                    /\ \A j \in DOMAIN tools :
                          tools[j].name = n => j <= i]]]

tool_to_mcp_schema(tool) ==
    [name |-> tool.name,
     description |-> tool.description,
     inputSchema |-> [type |-> "object",
                      properties |-> tool.parameters.properties,
                      required |-> tool.parameters.required]]

list_tools ==
    [i \in DOMAIN AdapterTools.keys |->
        tool_to_mcp_schema(AdapterTools.at[AdapterTools.keys[i]])]

\* tool_name in self.tools, for a hashable tool_name
Registered(tool_name) == tool_name.t = "str" /\ tool_name.v \in DOMAIN AdapterTools.at

\* mutant of execute_tool: the not-found message does not list the tools
execute_tool_noList(tool_name, arguments) ==
    IF ~Hashable(tool_name)
    THEN Raise("TypeError", <<"unhashable type: '", TypeName(tool_name), "'">>, {})
    ELSE IF ~Registered(tool_name)
    THEN Raise("ValueError", <<"Tool '", PyStr(tool_name), "' not found.">>, {})
    ELSE LET r == ToolRun(AdapterTools.at[tool_name.v], arguments)
         IN IF r.ok THEN r
            ELSE IF r.type = "TypeError"
            THEN Raise("ValueError",
                       <<"Invalid arguments for tool '", tool_name.v, "': ">> \o r.text,
                       r.ran)
            ELSE r

\* MCPAdapter.execute_tool
execute_tool(tool_name, arguments) ==
    IF ~Hashable(tool_name)
    THEN Raise("TypeError", <<"unhashable type: '", TypeName(tool_name), "'">>, {})
    ELSE IF ~Registered(tool_name)
    THEN Raise("ValueError",
               <<"Tool '", PyStr(tool_name), "' not found. Available tools: ">>
                   \o AdapterTools.keys, {})
    ELSE LET r == ToolRun(AdapterTools.at[tool_name.v], arguments)
         IN IF r.ok THEN r
            ELSE IF r.type = "TypeError"
            THEN Raise("ValueError",
                       <<"Invalid arguments for tool '", tool_name.v, "': ">> \o r.text,
                       r.ran)
            ELSE r

\* mutant of validate_arguments: an unknown tool is not looked for
validate_arguments_anyTool(tool_name, arguments) ==
    IF ~Hashable(tool_name)
    THEN Raise("TypeError", <<"unhashable type: '", TypeName(tool_name), "'">>, {})
    ELSE IF ~Registered(tool_name) THEN Ok(TRUE, {})
    ELSE IF AdapterTools.at[tool_name.v].parameters.required = <<>> THEN Ok(TRUE, {})
    ELSE IF ~IsDict(arguments)
    THEN Raise("TypeError",
               <<"argument of type '", TypeName(arguments), "' is not iterable">>, {})
    ELSE Ok(Range(AdapterTools.at[tool_name.v].parameters.required)
                \subseteq DOMAIN arguments.v, {})

\* MCPAdapter.validate_arguments: False for an unknown tool and when a name
\* of the schema's `required` is not a key of arguments.  `param not in
\* arguments` is evaluated only when there is a required name, and raises
\* for None and numbers.
validate_arguments(tool_name, arguments) ==
    IF ~Hashable(tool_name)
    THEN Raise("TypeError", <<"unhashable type: '", TypeName(tool_name), "'">>, {})
    ELSE IF ~Registered(tool_name) THEN Ok(FALSE, {})
    ELSE IF AdapterTools.at[tool_name.v].parameters.required = <<>> THEN Ok(TRUE, {})
    ELSE IF ~IsDict(arguments)
    THEN Raise("TypeError",
               <<"argument of type '", TypeName(arguments), "' is not iterable">>, {})
    ELSE Ok(Range(AdapterTools.at[tool_name.v].parameters.required)
                \subseteq DOMAIN arguments.v, {})

----------------------------------------------------------------------------
(* ToolHubMCPServer: the pure part, _handle_message and what it calls *)

PARSE_ERROR == -32700
INVALID_REQUEST == -32600
METHOD_NOT_FOUND == -32601
INTERNAL_ERROR == -32603

server_name == "llm-tool-hub"
server_version == "1.0.0"

\* self._request_handlers
RequestHandlers == {"initialize", "tools/list", "tools/call"}

\* mutant of error_response: `if msg_id:` in place of `if msg_id is not None:`
error_response_truthy(msg_id, code, message) ==
    IF Truthy(msg_id)
    THEN [jsonrpc |-> "2.0", error |-> [code |-> code, message |-> message], id |-> msg_id]
    ELSE [jsonrpc |-> "2.0", error |-> [code |-> code, message |-> message]]

\* _error_response(msg_id, code, message), data left at its default None
error_response(msg_id, code, message) ==
    IF msg_id # JNull
    THEN [jsonrpc |-> "2.0", error |-> [code |-> code, message |-> message], id |-> msg_id]
    ELSE [jsonrpc |-> "2.0", error |-> [code |-> code, message |-> message]]

handle_initialize(params) ==
    IF ~IsDict(params) THEN AttributeError(params)
    ELSE LET clientInfo == Get(params, "clientInfo", JObj(EmptyDict))
         IN IF ~IsDict(clientInfo) THEN AttributeError(clientInfo)
            ELSE Ok([protocolVersion |-> "2024-11-05",
                     capabilities |-> [tools |-> EmptyDict],
                     serverInfo |-> [name |-> server_name, version |-> server_version]],
                    {})

handle_list_tools(params) == Ok([tools |-> list_tools], {})

handle_call_tool(params) ==
    IF ~IsDict(params) THEN AttributeError(params)
    ELSE LET tool_name == Get(params, "name", JNull)
             arguments == Get(params, "arguments", JObj(EmptyDict))
         IN IF ~Truthy(tool_name)
            THEN Raise("ValueError", <<"Tool name is required">>, {})
            ELSE LET r == execute_tool(tool_name, arguments)
                 IN IF r.ok
                    THEN Ok([content |-> <<[type |-> "text", text |-> r.value]>>], r.ran)
                    ELSE r

\* handler(params) for a method of the dispatch table
CallHandler(method, params) ==
    CASE method = "initialize" -> handle_initialize(params)
      [] method = "tools/list" -> handle_list_tools(params)
      [] method = "tools/call" -> handle_call_tool(params)

\* what one _handle_message call did
Did(resp, handler, ran, exc) ==
    [resp |-> resp, handler |-> handler, ran |-> ran, exc |-> exc]

\* mutant of InvalidRequest: the id is not passed on
InvalidRequest_noId(msg_id) ==
    error_response(JNull, INVALID_REQUEST, <<"Invalid Request">>)

\* the return of lines 96-97
InvalidRequest(msg_id) ==
    error_response(msg_id, INVALID_REQUEST, <<"Invalid Request">>)

\* mutant of MethodNotFound: the method is not named
MethodNotFound_generic(msg_id, method) ==
    error_response(msg_id, METHOD_NOT_FOUND, <<"Method not found">>)

\* the return of lines 103-104
MethodNotFound(msg_id, method) ==
    error_response(msg_id, METHOD_NOT_FOUND, <<"Method not found: ", PyStr(method)>>)

\* mutant of InternalError: the exception's text is dropped
InternalError_noText(message, e) ==
    error_response(IF IsDict(message) THEN Get(message, "id", JNull) ELSE JNull,
                   INTERNAL_ERROR, <<"Internal error">>)

\* the except clause, lines 119-122
InternalError(message, e) ==
    error_response(IF IsDict(message) THEN Get(message, "id", JNull) ELSE JNull,
                   INTERNAL_ERROR, <<"Internal error: ">> \o e.text)

\* the return of lines 110-117
ResultResponse(msg_id, result) ==
    IF msg_id # JNull
    THEN [jsonrpc |-> "2.0", id |-> msg_id, result |-> result]
    ELSE JNull

\* _handle_message(message): None is JNull
handle_message(message) ==
    IF ~IsDict(message)
    THEN Did(error_response(JNull, PARSE_ERROR, <<"Parse error">>), "none", {}, NoExc)
    ELSE LET method == Get(message, "method", JNull)
             params == Get(message, "params", JObj(EmptyDict))
             msg_id == Get(message, "id", JNull)
         IN IF ~Truthy(method)
            THEN Did(InvalidRequest(msg_id), "none", {}, NoExc)
            ELSE IF ~Hashable(method)
            THEN LET e == Raise("TypeError",
                                <<"unhashable type: '", TypeName(method), "'">>, {})
                 IN Did(InternalError(message, e), "none", {}, e)
            ELSE IF ~(method.t = "str" /\ method.v \in RequestHandlers)
            THEN Did(MethodNotFound(msg_id, method), "none", {}, NoExc)
            ELSE LET r == CallHandler(method.v, params)
                 IN IF r.ok
                    THEN Did(ResultResponse(msg_id, r.value), method.v, r.ran, NoExc)
                    ELSE Did(InternalError(message, r), method.v, r.ran, r)

----------------------------------------------------------------------------
(* The file system tools (filesystem_tool/): read_file, modify_file and    *)
(* create_file.  A text is the sequence of its characters, over "a" and    *)
(* the newline; a file path is kept with the components pathlib parses it  *)
(* into and its text for messages; a location is the component sequence of *)
(* an absolute, resolved path.  The tool's root is /w; /secret.txt lies    *)
(* outside it and /w/link is a symbolic link to it.                        *)

NL == "\n"
Chars == {"a", NL}

\* the index of the first newline of a text that has one
FirstNL(s) == CHOOSE i \in DOMAIN s : s[i] = NL /\ \A j \in 1..(i - 1) : s[j] # NL

RECURSIVE splitlines(_)
\* str.splitlines(): the lines without their newlines; a newline at the end
\* of the text ends the last line and opens no further one
splitlines(s) ==
    IF s = <<>> THEN <<>>
    ELSE IF NL \notin Range(s) THEN <<s>>
    ELSE <<SubSeq(s, 1, FirstNL(s) - 1)>> \o splitlines(SubSeq(s, FirstNL(s) + 1, Len(s)))

RECURSIVE join(_)
\* '\n'.join(ls)
join(ls) ==
    IF ls = <<>> THEN <<>>
    ELSE IF Len(ls) = 1 THEN ls[1]
    ELSE ls[1] \o <<NL>> \o join(Tail(ls))

\* the lines a text-mode read of the file yields (enumerate(f, 1),
\* f.readlines()), each with line.rstrip('\n') applied
FileLines(content) == splitlines(content)

\* BaseFileSystemTool._get_lines
get_lines(content) == FileLines(content)

Path(str, abs, parts) == [str |-> str, abs |-> abs, parts |-> parts]

root_path == <<"w">>
Dirs == {<<>>, root_path}
SecretFile == <<"secret.txt">>
Symlinks == [l \in {root_path \o <<"link">>} |-> SecretFile]

RECURSIVE Walk(_, _)
\* os.path.realpath, not strict: ".." drops the last component, a component
\* that makes the path a symbolic link is replaced by the link's target
Walk(at, rest) ==
    IF rest = <<>> THEN at
    ELSE IF Head(rest) = "." THEN Walk(at, Tail(rest))
    ELSE IF Head(rest) = ".."
    THEN Walk(IF at = <<>> THEN at ELSE SubSeq(at, 1, Len(at) - 1), Tail(rest))
    ELSE LET next == Append(at, Head(rest))
         IN Walk(IF next \in DOMAIN Symlinks THEN Symlinks[next] ELSE next, Tail(rest))

\* mutant of resolve: the path is joined to the root and left as written
resolve_lexical(file_path) ==
    IF file_path.abs THEN file_path.parts ELSE root_path \o file_path.parts

\* (self.root_path / Path(file_path)).resolve(): an absolute file_path
\* replaces the root
resolve(file_path) ==
    IF file_path.abs THEN Walk(<<>>, file_path.parts)
    ELSE Walk(root_path, file_path.parts)

\* target_path.relative_to(self.root_path) succeeds
InsideRoot(target) ==
    Len(target) >= Len(root_path) /\ SubSeq(target, 1, Len(root_path)) = root_path

\* target_path.exists(), is_dir(), is_file(), parent.is_dir() in the file
\* system fs, a function from the locations of the files to their contents
Exists(fs_, target) == target \in DOMAIN fs_ \/ target \in Dirs
IsDir(target) == target \in Dirs
ParentIsDir(target) == target # <<>> /\ SubSeq(target, 1, Len(target) - 1) \in Dirs

AccessDenied(file_path) ==
    Raise("ValueError",
          <<"Access Denied: File path '", file_path.str,
            "' must be inside the configured root: ", "/w">>, {})

\* BaseFileSystemTool._check_path_safety(file_path, must_exist, allow_dir=False):
\* the target path, or the exception raised
check_path_safety(fs_, unsafe, file_path, must_exist) ==
    IF file_path.str = ""
    THEN Raise("ValueError",
               <<"File path is empty, please check your path configuration.">>, {})
    ELSE LET target_path == resolve(file_path)
         IN IF ~unsafe /\ ~InsideRoot(target_path) THEN AccessDenied(file_path)
            ELSE IF must_exist /\ ~Exists(fs_, target_path)
            THEN Raise("FileNotFoundError",
                       <<"File not found at path: ", file_path.str>>, {})
            ELSE IF ~must_exist /\ Exists(fs_, target_path)
            THEN Raise("ValueError",
                       <<"File already exists at path: ", file_path.str,
                         ". Cannot overwrite.">>, {})
            ELSE IF Exists(fs_, target_path) /\ IsDir(target_path)
            THEN Raise("ValueError",
                       <<"Path is a directory: ", file_path.str,
                         ". Operation requires a file path.">>, {})
            ELSE IF ~Exists(fs_, target_path) /\ ~ParentIsDir(target_path)
            THEN Raise("FileNotFoundError",
                       <<"Parent directory does not exist for path: ", file_path.str>>, {})
            ELSE Ok(target_path, {})

\* ReadFileTool._check_path_safety(file_path)
read_check_path_safety(fs_, unsafe, file_path) ==
    IF file_path.str = ""
    THEN Raise("ValueError",
               <<"File path is empty, please check your path configuration">>, {})
    ELSE LET target_path == resolve(file_path)
         IN IF ~unsafe /\ ~InsideRoot(target_path) THEN AccessDenied(file_path)
            ELSE IF ~Exists(fs_, target_path)
            THEN Raise("FileNotFoundError",
                       <<"File not found at path: ", file_path.str>>, {})
            ELSE IF target_path \notin DOMAIN fs_
            THEN Raise("ValueError", <<"Path is not a file: ", file_path.str>>, {})
            ELSE Ok(target_path, {})

CONTEXT_WINDOW_SIZE == 5

Max(a, b) == IF a > b THEN a ELSE b
Min(a, b) == IF a < b THEN a ELSE b

\* what a call of a file tool did: the pieces of the string returned, the
\* synchronized window in it (NoSync when it has none), the file system
\* left, and the locations of the files opened
FileResult(text, sync, fs_, opened) ==
    [text |-> text, sync |-> sync, fs |-> fs_, opened |-> opened]

NoSync == [t |-> "nosync"]

\* the "N:content" lines of the file's lines first..last, as the loops over
\* enumerate(f, 1) build them
Numbered(content, first, last) ==
    LET ls == FileLines(content)
    IN [k \in 1..Max(0, Min(last, Len(ls)) - first + 1) |->
           [n |-> first + k - 1, content |-> ls[first + k - 1]]]

\* BaseFileSystemTool._format_modified_content, reading the file back
format_modified_content(content, new_total_lines, modified_start_line, new_lines_count) ==
    LET read_start_line == Max(1, modified_start_line - CONTEXT_WINDOW_SIZE)
        window_end_line == modified_start_line + new_lines_count - 1
        read_end_line == Min(new_total_lines, window_end_line + CONTEXT_WINDOW_SIZE + 1)
    IN [first |-> read_start_line,
        last |-> read_end_line,
        entries |-> Numbered(content, read_start_line, read_end_line),
        prefix |-> read_start_line > 1,
        suffix |-> read_end_line < new_total_lines,
        total |-> new_total_lines]

\* ModifyFileTool.run, 3.4: insertion before start_line when end_line is
\* less, else replacement of start_line..end_line (a slice may end past the
\* last line)
ModifiedLines(original_lines, start_line, end_line, new_content_lines) ==
    IF end_line < start_line
    THEN SubSeq(original_lines, 1, start_line - 1) \o new_content_lines
             \o SubSeq(original_lines, start_line, Len(original_lines))
    ELSE SubSeq(original_lines, 1, start_line - 1) \o new_content_lines
             \o SubSeq(original_lines, end_line + 1, Len(original_lines))

\* the `operation` of the success message
OperationText(total_lines, start_line, end_line, new_content_lines) ==
    LET lines_removed == Max(0, Min(end_line, total_lines) - (start_line - 1))
    IN IF end_line < start_line
       THEN <<"inserted ", ToString(Len(new_content_lines)), " lines before line ",
              ToString(start_line)>>
       ELSE IF new_content_lines = <<>>
       THEN <<"deleted ", ToString(lines_removed), " lines (lines ", ToString(start_line),
              "-", ToString(start_line + lines_removed - 1), ")">>
       ELSE <<"replaced ", ToString(lines_removed), " lines (lines ", ToString(start_line),
              "-", ToString(start_line + lines_removed - 1), ") with ",
              ToString(Len(new_content_lines)), " new lines">>

\* ModifyFileTool.run
modify_file(fs_, unsafe, file_path, start_line, end_line, new_content) ==
    LET chk == check_path_safety(fs_, unsafe, file_path, TRUE)
    IN IF ~chk.ok
       THEN FileResult(<<"ERROR: Tool execution failed for '", file_path.str,
                         "'. Reason: ">> \o chk.text, NoSync, fs_, {})
       ELSE IF start_line < 1 \/ end_line < 0
       THEN FileResult(<<"ERROR: start_line must be >= 1. end_line must be >= 0.">>,
                       NoSync, fs_, {})
       ELSE
       LET target_path == chk.value
           original_lines == get_lines(fs_[target_path])
           total_lines == Len(original_lines)
           new_content_lines == splitlines(new_content)
       IN IF start_line > total_lines + 1
          THEN FileResult(<<"ERROR: Cannot modify lines. Requested start_line (",
                            ToString(start_line), ") is beyond the file's current end (",
                            ToString(total_lines), ").">>,
                          NoSync, fs_, {target_path})
          ELSE
          LET modified_lines ==
                  ModifiedLines(original_lines, start_line, end_line, new_content_lines)
              new_lines_count ==
                  IF end_line >= start_line /\ new_content_lines = <<>>
                  THEN 0 ELSE Len(new_content_lines)
              written == join(modified_lines)
          IN FileResult(
                 <<"SUCCESS: File '", file_path.str,
                   "' successfully modified. Operation: ">>
                     \o OperationText(total_lines, start_line, end_line, new_content_lines)
                     \o <<".">>,
                 format_modified_content(written, Len(modified_lines), start_line,
                                         new_lines_count),
                 [fs_ EXCEPT ![target_path] = written],
                 {target_path})

\* ReadFileTool.run; end_line is None (JNull) or a number.  No line of a
\* text here reaches MAX_LINE_CHARS, so no line is truncated.
read_file(fs_, unsafe, file_path, start_line, end_line) ==
    LET chk == read_check_path_safety(fs_, unsafe, file_path)
        start == Max(1, start_line)
    IN IF ~chk.ok
       THEN FileResult(<<"ERROR: Tool excution failed for '", file_path.str,
                         "', Reason: ">> \o chk.text, NoSync, fs_, {})
       ELSE IF end_line # JNull /\ end_line.v <= start
       THEN FileResult(<<"ERROR: end_line must be greater than start_line.">>,
                       NoSync, fs_, {})
       ELSE
       LET target_path == chk.value
           total_lines == Len(FileLines(fs_[target_path]))
           last == IF end_line = JNull THEN total_lines ELSE end_line.v - 1
           entries == Numbered(fs_[target_path], start, last)
       IN IF entries = <<>>
          THEN IF start > total_lines /\ total_lines > 0
               THEN FileResult(<<"ERROR: Tool excution failed for '", file_path.str,
                                 "'. Reason: Requested start_line (", ToString(start),
                                 ") is greater than the total lines in file (",
                                 ToString(total_lines), ").">>,
                               NoSync, fs_, {target_path})
               ELSE FileResult(<<"SUCCESS: Chunk of '", file_path.str, "' (Lines ",
                                 ToString(start), "-", ToString(total_lines),
                                 ") is empty. Total lines in file: ",
                                 ToString(total_lines), ".">>,
                               NoSync, fs_, {target_path})
          ELSE FileResult(<<"SUCCESS: Chunk of '", file_path.str, "' (Lines ",
                            ToString(start), "-", ToString(start + Len(entries) - 1), "):">>,
                          [first |-> start, last |-> start + Len(entries) - 1,
                           entries |-> entries],
                          fs_, {target_path})

\* CreateFileTool.run
create_file(fs_, unsafe, file_path, content, return_content) ==
    LET chk == check_path_safety(fs_, unsafe, file_path, FALSE)
    IN IF ~chk.ok
       THEN FileResult(<<"ERROR: Tool execution failed for '", file_path.str, "'. Reason: ">>
                           \o (IF chk.type = "FileNotFoundError"
                               THEN <<"Parent directory not found or general I/O error: ">>
                               ELSE <<>>)
                           \o chk.text,
                       NoSync, fs_, {})
       ELSE
       LET target_path == chk.value
           line_count == Len(splitlines(content))
           created == [l \in DOMAIN fs_ \cup {target_path} |->
                          IF l = target_path THEN content ELSE fs_[l]]
       IN FileResult(<<"SUCCESS: File '", file_path.str, "' successfully created with ",
                       ToString(line_count), " lines of initial content.">>,
                     IF return_content
                     THEN [first |-> 1, last |-> line_count,
                           entries |-> Numbered(content, 1, Len(FileLines(content)))]
                     ELSE NoSync,
                     created, {target_path})

MainFile == root_path \o <<"a.txt">>

\* the files under test: /w/a.txt with the given text, and /secret.txt
Files(content) == (MainFile :> content) @@ (SecretFile :> <<"a">>)

\* the file tools constructed on /w in safe mode, a.txt empty
InitFiles ==
    /\ fs = Files(<<>>)
    /\ unsafe_mode = FALSE

----------------------------------------------------------------------------
(* Inputs *)

\* number of lines the client writes before it closes stdin
MaxLines == 3

\* a key that the JSON object does not have
Absent == [t |-> "absent"]

\* the JSON object with the given members, the absent ones left out
Object(members) ==
    JObj([k \in {k \in DOMAIN members : members[k] # Absent} |-> members[k]])

Message(id, method, params) ==
    Object([jsonrpc |-> JStr("2.0"), id |-> id, method |-> method, params |-> params])

Ids == {Absent, JNull, JInt(0), JInt(1), JStr("a")}

Methods ==
    {Absent, JNull, JStr(""), JStr("initialize"), JStr("tools/list"), JStr("tools/call"),
     JStr("bogus"), JInt(5), JArr(<<JInt(1)>>)}

ToolNames ==
    {Absent, JStr(""), JStr("dummy_tool"), JStr("error_tool"), JStr("nonexistent"),
     JArr(<<JInt(1)>>)}

Arguments ==
    {Absent, JNull, JObj(EmptyDict),
     JObj([query |-> JStr("q")]),
     JObj([query |-> JStr("q"), limit |-> JInt(10)]),
     JObj([query |-> JStr("q"), extra |-> JInt(1)]),
     JObj([limit |-> JInt(10)])}

Params ==
    {Absent, JNull, JArr(<<>>), JObj(EmptyDict),
     JObj([clientInfo |-> JObj([name |-> JStr("client")])]),
     JObj([clientInfo |-> JStr("client")])}
    \cup {Object([name |-> n, arguments |-> a]) : n \in ToolNames, a \in Arguments}

\* every parsed message _handle_message is tried on
Messages ==
    {JNull, JInt(3), JStr("s"), JArr(<<JInt(1), JInt(2)>>)}
    \cup {Message(i, m, p) : i \in Ids, m \in Methods, p \in Params}

\* the lines a client sends to the running server
JsonLine(value) == [kind |-> "json", value |-> value]
BlankLine == [kind |-> "blank"]
BadLine == [kind |-> "bad"]

Lines ==
    {BlankLine, BadLine,
     JsonLine(Message(JInt(1), JStr("initialize"), Absent)),
     JsonLine(Message(JInt(0), JStr("tools/call"),
                      Object([name |-> JStr("dummy_tool"),
                              arguments |-> JObj([query |-> JStr("q")])]))),
     JsonLine(Message(JInt(2), JStr("tools/call"),
                      Object([name |-> JStr("error_tool")]))),
     JsonLine(Message(Absent, JStr("initialize"), Absent)),
     JsonLine(Message(Absent, JStr("bogus"), Absent)),
     JsonLine(Message(JInt(3), Absent, Absent)),
     JsonLine(JArr(<<JInt(1), JInt(2)>>))}

----------------------------------------------------------------------------
(* The running server: the task executing run() and the _read_loop task,   *)
(* interleaved at their await points.  tool.run is a synchronous call, so  *)
(* a handler and the send of its response are one step of the main task;   *)
(* while a tool's run body executes (mpc = "tool") the event loop's thread  *)
(* is inside that call and no other task is resumed.                       *)
(* send() has no await while it holds the write lock, so a send is one     *)
(* step too.                                                               *)
(*                                                                         *)
(* Whether asyncio.wait_for(self.receive(), 0.5) yields to the event loop  *)
(* depends on the interpreter: up to Python 3.11 it runs receive() in a    *)
(* task of its own and the main task waits for it (the steps Receive and   *)
(* then LoopIdle/LoopHandle); from 3.12 on it awaits the coroutine inline, *)
(* receive() never suspends, and the main task never yields inside the     *)
(* loop.  The behaviours of the second kind are those interleavings in     *)
(* which the reader takes no step between RunStart and the loop's end, so  *)
(* every safety property checked here covers both.  Fairness is stated for *)
(* the main task only, which is scheduled in both.                         *)

NoMsg == [line |-> 0]
NoCall == [t |-> "nocall"]

\* the transport and the server after construction, before run()
InitServer ==
    /\ running = FALSE
    /\ queue = <<>>
    /\ stdout = <<>>
    /\ lines = <<>>
    /\ rpc = "none"
    /\ mpc = "created"
    /\ cur = NoMsg
    /\ hmsg = NoCall
    /\ hout = NoCall
    /\ startCalls = 0
    /\ stopCalls = 0
    /\ exit = "none"
    /\ received = <<>>

\* ToolHubMCPServer(ToolsPassed, StdioTransport()), nothing called yet
Init ==
    /\ InitServer
    /\ passed = ToolsPassed
    /\ AdapterTools = MCPAdapter_init(passed)
    /\ call = NoCall
    /\ ret = NoCall
    /\ InitFiles

\* mutant of send: print(json_str, end=""), the line is left open
send_noNewline(out, by, line, message) ==
    Append(out, [by |-> by, line |-> line, msg |-> message, eol |-> FALSE])

\* async with self._write_lock: json.dumps(message), then print writes the
\* text and its newline (eol).  The block holds no await and both callers
\* run on the event loop's thread, so the lock is free whenever a task
\* reaches it and the whole send is one step of that task.
send(out, by, line, message) ==
    Append(out, [by |-> by, line |-> line, msg |-> message, eol |-> TRUE])

\* mutant of ParseErrorResponse: the jsonrpc member is forgotten
ParseErrorResponse_bare ==
    [error |-> [code |-> PARSE_ERROR, message |-> <<"Parse error">>]]

\* the dict built in the except json.JSONDecodeError clause
ParseErrorResponse ==
    [jsonrpc |-> "2.0", error |-> [code |-> PARSE_ERROR, message |-> <<"Parse error">>]]

\* mutant of receive: the newest message is taken first
receive_lifo(q) ==
    IF q = <<>>
    THEN [msg |-> NoMsg, rest |-> q]
    ELSE [msg |-> q[Len(q)], rest |-> SubSeq(q, 1, Len(q) - 1)]

\* mutant of receive: the message is read but left on the queue
receive_peek(q) ==
    IF q = <<>>
    THEN [msg |-> NoMsg, rest |-> q]
    ELSE [msg |-> Head(q), rest |-> q]

\* StdioTransport.receive, get_nowait on the queue: the message returned
\* (None when the queue is empty) and the queue left
receive(q) ==
    IF q = <<>>
    THEN [msg |-> NoMsg, rest |-> q]
    ELSE [msg |-> Head(q), rest |-> Tail(q)]

\* mutant of StoppedReader: stop() leaves the reader task alone
StoppedReader_keeps(r) == r

\* StdioTransport.stop: the position of the reader task afterwards
\* (a task that is not done is cancelled and awaited)
StoppedReader(r) == IF r \in {"created", "reading", "sleeping"} THEN "cancelled" ELSE r

\* StdioTransport.stop
stop ==
    /\ running' = FALSE
    /\ rpc' = StoppedReader(rpc)
    /\ stopCalls' = stopCalls + 1

(* ---- the task executing ToolHubMCPServer.run ---- *)

\* run(): transport.start() creates the reader task; run_message_loop sets
\* _running and enters the loop, up to its first await
RunStart ==
    /\ mpc = "created"
    /\ startCalls' = startCalls + 1
    /\ running' = TRUE
    /\ rpc' = "created"
    /\ mpc' = "recv"
    /\ UNCHANGED <<apiVars, received, queue, stdout, lines, cur, hmsg, hout, stopCalls, exit>>

\* run() on a transport whose start() raises: the except Exception clause
\* logs, the finally clause stops the transport, run() returns
StartFails ==
    /\ mpc = "created"
    /\ startCalls' = startCalls + 1
    /\ stop
    /\ mpc' = "done"
    /\ exit' = "returned"
    /\ UNCHANGED <<apiVars, received, queue, stdout, lines, cur, hmsg, hout>>

\* mutant of Receive: the next message is taken while the handler of the
\* last one has not run yet
Receive_early ==
    /\ mpc \in {"recv", "got"}
    /\ cur' = receive(queue).msg
    /\ queue' = receive(queue).rest
    /\ received' = IF cur' = NoMsg THEN received ELSE Append(received, cur'.line)
    /\ mpc' = "got"
    /\ UNCHANGED <<apiVars, running, stdout, lines, rpc, hmsg, hout, startCalls, stopCalls, exit>>

\* the task that wait_for wraps around receive() runs
Receive ==
    /\ mpc = "recv"
    /\ cur' = receive(queue).msg
    /\ queue' = receive(queue).rest
    /\ received' = IF cur' = NoMsg THEN received ELSE Append(received, cur'.line)
    /\ mpc' = "got"
    /\ UNCHANGED <<apiVars, running, stdout, lines, rpc, hmsg, hout, startCalls, stopCalls, exit>>

\* the main task resumes with None: continue
LoopIdle ==
    /\ mpc = "got"
    /\ cur = NoMsg
    /\ mpc' = "loop"
    /\ UNCHANGED <<apiVars, received, running, queue, stdout, lines, rpc, cur, hmsg, hout,
                   startCalls, stopCalls, exit>>

\* the handler of this message calls a tool's run
RunsTool(message) == handle_message(message).ran # {}

\* the main task resumes with a message whose handler reaches
\* adapter.execute_tool: tool.run(**arguments) is entered, a plain call on
\* the event loop's thread
ToolBegin ==
    /\ mpc = "got"
    /\ cur # NoMsg
    /\ RunsTool(cur.msg)
    /\ mpc' = "tool"
    /\ UNCHANGED <<apiVars, received, running, queue, stdout, lines, rpc, cur, hmsg, hout,
                   startCalls, stopCalls, exit>>

\* the event loop can resume a task: its thread is not inside a tool's run
LoopFree == mpc # "tool"

\* mutant of LoopHandle: a message held when _running was cleared is
\* discarded, its handler is not run
LoopHandle_ifRunning ==
    /\ mpc = "tool" \/ (mpc = "got" /\ cur # NoMsg /\ ~RunsTool(cur.msg))
    /\ cur # NoMsg
    /\ hmsg' = IF running THEN cur.msg ELSE hmsg
    /\ hout' = IF running THEN handle_message(cur.msg) ELSE hout
    /\ stdout' = IF running /\ hout'.resp # JNull
                 THEN send(stdout, "loop", cur.line, hout'.resp)
                 ELSE stdout
    /\ cur' = NoMsg
    /\ mpc' = "loop"
    /\ UNCHANGED <<apiVars, received, running, queue, lines, rpc, startCalls, stopCalls, exit>>

\* the main task resumes with a message: response = await handler(message),
\* and send(response) if it is not None (the tool, if one is run, returns)
LoopHandle ==
    /\ mpc = "tool" \/ (mpc = "got" /\ cur # NoMsg /\ ~RunsTool(cur.msg))
    /\ cur # NoMsg
    /\ hmsg' = cur.msg
    /\ hout' = handle_message(cur.msg)
    /\ stdout' = IF hout'.resp # JNull
                 THEN send(stdout, "loop", cur.line, hout'.resp)
                 ELSE stdout
    /\ cur' = NoMsg
    /\ mpc' = "loop"
    /\ UNCHANGED <<apiVars, received, running, queue, lines, rpc, startCalls, stopCalls, exit>>

\* while self._running: into the next wait_for
LoopAgain ==
    /\ mpc = "loop"
    /\ running
    /\ mpc' = "recv"
    /\ UNCHANGED <<apiVars, received, running, queue, stdout, lines, rpc, cur, hmsg, hout,
                   startCalls, stopCalls, exit>>

\* the loop ends: run_message_loop's finally clause clears _running and stops
LoopExit ==
    /\ mpc = "loop"
    /\ ~running
    /\ stop
    /\ mpc' = "finally"
    /\ UNCHANGED <<apiVars, received, queue, stdout, lines, cur, hmsg, hout, startCalls, exit>>

\* the main task is cancelled while wait_for awaits receive(): CancelledError
\* passes the loop's except clauses and runs its finally clause
Cancel ==
    /\ mpc = "recv"
    /\ stop
    /\ mpc' = "finally_cancelled"
    /\ UNCHANGED <<apiVars, received, queue, stdout, lines, cur, hmsg, hout, startCalls, exit>>

\* mutant of RunFinally: run() has no finally clause
RunFinally_noStop ==
    /\ mpc \in {"finally", "finally_cancelled"}
    /\ exit' = IF mpc = "finally" THEN "returned" ELSE "cancelled"
    /\ mpc' = "done"
    /\ UNCHANGED <<apiVars, received, running, rpc, stopCalls, queue, stdout, lines, cur, hmsg, hout,
                   startCalls>>

\* run()'s finally clause: await self.transport.stop()
RunFinally ==
    /\ mpc \in {"finally", "finally_cancelled"}
    /\ stop
    /\ exit' = IF mpc = "finally" THEN "returned" ELSE "cancelled"
    /\ mpc' = "done"
    /\ UNCHANGED <<apiVars, received, queue, stdout, lines, cur, hmsg, hout, startCalls>>

(* ---- the _read_loop task ---- *)

\* where the reader is after `while self._running` is evaluated: awaiting the
\* next readline, or through the finally clause
ReaderNext(r) == IF r THEN "reading" ELSE "done"

\* the first step of the task
ReaderStart ==
    /\ rpc = "created"
    /\ LoopFree
    /\ rpc' = ReaderNext(running)
    /\ UNCHANGED <<apiVars, received, running, queue, stdout, lines, mpc, cur, hmsg, hout,
                   startCalls, stopCalls, exit>>

\* mutant of ReadEOF: the reader ends without clearing _running
ReadEOF_keepsRunning ==
    /\ rpc = "reading"
    /\ LoopFree
    /\ rpc' = "done"
    /\ UNCHANGED <<apiVars, received, running, queue, stdout, lines, mpc, cur, hmsg, hout,
                   startCalls, stopCalls, exit>>

\* readline returned "" : EOF
ReadEOF ==
    /\ rpc = "reading"
    /\ LoopFree
    /\ running' = FALSE
    /\ rpc' = "done"
    /\ UNCHANGED <<apiVars, received, queue, stdout, lines, mpc, cur, hmsg, hout,
                   startCalls, stopCalls, exit>>

\* mutant of Enqueued: a line that does not parse is put on the queue too
Enqueued_all(q, n, l) ==
    IF l.kind = "blank" THEN q
    ELSE Append(q, [line |-> n, msg |-> IF l.kind = "json" THEN l.value ELSE JNull])

\* json.loads(line) succeeds: the message is put on the queue
Enqueued(q, n, l) ==
    IF l.kind = "json" THEN Append(q, [line |-> n, msg |-> l.value]) ELSE q

\* json.loads(line) raises JSONDecodeError: the parse error is sent
Answered(out, n, l) ==
    IF l.kind = "bad" THEN send(out, "reader", n, ParseErrorResponse) ELSE out

\* readline returned a line: skip it if blank, put it if json.loads parses it,
\* send a parse error if not; then the next readline
ReadLine(l) ==
    /\ rpc = "reading"
    /\ LoopFree
    /\ Len(lines) < MaxLines
    /\ lines' = Append(lines, l)
    /\ queue' = Enqueued(queue, Len(lines'), l)
    /\ stdout' = Answered(stdout, Len(lines'), l)
    /\ rpc' = ReaderNext(running)
    /\ UNCHANGED <<apiVars, received, running, mpc, cur, hmsg, hout, startCalls, stopCalls, exit>>

Next ==
    \/ RunStart
    \/ StartFails
    \/ Receive
    \/ LoopIdle
    \/ ToolBegin
    \/ LoopHandle
    \/ LoopAgain
    \/ LoopExit
    \/ Cancel
    \/ RunFinally
    \/ ReaderStart
    \/ ReadEOF
    \/ \E l \in Lines : ReadLine(l)

Spec == Init /\ [][Next]_vars

----------------------------------------------------------------------------
(* _handle_message called directly, as the unit tests call it *)

DirectCall(message) ==
    /\ hmsg = NoCall
    /\ hmsg' = message
    /\ hout' = handle_message(message)
    /\ UNCHANGED <<apiVars, received, running, queue, stdout, lines, rpc, mpc, cur,
                   startCalls, stopCalls, exit>>

NextCall == \E message \in Messages : DirectCall(message)

SpecCall == Init /\ [][NextCall]_vars

----------------------------------------------------------------------------
(* The adapter and the server's tool handlers called directly, as their    *)
(* unit tests call them, on an adapter built from any list of tools.       *)

MaxTools == 3

\* the tools a caller can construct the adapter with
ToolPool == {DummyTool, OtherDummyTool, ErrorTool, TypeErrorTool, LenientTool}

\* the lists of at most MaxTools tools, a tool possibly passed twice
ToolLists == UNION {[1..n -> ToolPool] : n \in 0..MaxTools}

\* the tool names and arguments the calls are tried with
CallNames == (ToolNames \ {Absent}) \cup {JStr("type_error_tool"), JStr("lenient_tool")}
CallArguments == Arguments \ {Absent}
CallParams ==
    {JNull, JObj(EmptyDict)}
    \cup {Object([name |-> n, arguments |-> a]) :
            n \in CallNames \cup {Absent}, a \in Arguments}

serverVars == <<running, queue, stdout, lines, rpc, mpc, cur, hmsg, hout,
                startCalls, stopCalls, exit, received>>

\* MCPAdapter(tools) for any list of tools
InitAdapter ==
    /\ InitServer
    /\ passed \in ToolLists
    /\ AdapterTools = MCPAdapter_init(passed)
    /\ call = NoCall
    /\ ret = NoCall
    /\ InitFiles

\* adapter.execute_tool(tool_name, arguments)
ExecuteTool(tool_name, arguments) ==
    /\ call = NoCall
    /\ call' = [op |-> "execute_tool", name |-> tool_name, arguments |-> arguments]
    /\ ret' = execute_tool(tool_name, arguments)
    /\ UNCHANGED <<serverVars, passed, AdapterTools, fs, unsafe_mode>>

\* adapter.validate_arguments(tool_name, arguments)
ValidateArguments(tool_name, arguments) ==
    /\ call = NoCall
    /\ call' = [op |-> "validate_arguments", name |-> tool_name, arguments |-> arguments]
    /\ ret' = validate_arguments(tool_name, arguments)
    /\ UNCHANGED <<serverVars, passed, AdapterTools, fs, unsafe_mode>>

\* server._handle_list_tools({})
ListTools ==
    /\ call = NoCall
    /\ call' = [op |-> "tools/list"]
    /\ ret' = handle_list_tools(JObj(EmptyDict))
    /\ UNCHANGED <<serverVars, passed, AdapterTools, fs, unsafe_mode>>

\* server._handle_call_tool(params)
CallTool(params) ==
    /\ call = NoCall
    /\ call' = [op |-> "tools/call", params |-> params]
    /\ ret' = handle_call_tool(params)
    /\ UNCHANGED <<serverVars, passed, AdapterTools, fs, unsafe_mode>>

NextAdapter ==
    \/ \E n \in CallNames, a \in CallArguments : ExecuteTool(n, a)
    \/ \E n \in CallNames, a \in CallArguments : ValidateArguments(n, a)
    \/ ListTools
    \/ \E params \in CallParams : CallTool(params)

SpecAdapter == InitAdapter /\ [][NextAdapter]_vars

----------------------------------------------------------------------------
(* The file tools called directly, as their unit tests call them: one call *)
(* on a root directory whose file a.txt holds any text of at most MaxChars *)
(* characters, by a tool constructed in safe or in unsafe mode.            *)

MaxChars == 7

\* the texts of at most n characters
Texts(n) == UNION {[1..k -> Chars] : k \in 0..n}

MainPath == Path("a.txt", FALSE, <<"a.txt">>)

\* further values of file_path: a new file, ways out of the root (a parent
\* reference, an absolute path, a symbolic link), a way out and back in,
\* the empty path, the root itself and a missing directory
OtherPaths ==
    {Path("new.txt", FALSE, <<"new.txt">>),
     Path("../secret.txt", FALSE, <<"..", "secret.txt">>),
     Path("/secret.txt", TRUE, <<"secret.txt">>),
     Path("link", FALSE, <<"link">>),
     Path("../new.txt", FALSE, <<"..", "new.txt">>),
     Path("../w/a.txt", FALSE, <<"..", "w", "a.txt">>),
     Path("", FALSE, <<>>),
     Path(".", FALSE, <<".">>),
     Path("nodir/x.txt", FALSE, <<"nodir", "x.txt">>)}

FilePaths == {MainPath} \cup OtherPaths

\* values of new_content and content
NewContents ==
    {<<>>, <<"a">>, <<NL>>, <<"a", NL>>, <<"a", NL, "a">>, <<"a", NL, NL>>}

\* values of start_line and, for each, of end_line: none, the line before
\* (insertion), the line itself, the next, and one past every file
StartLines == 0..(MaxChars + 2)
EndLines(start_line) == {0, start_line - 1, start_line, start_line + 1, MaxChars + 1}

\* ModifyFileTool / ReadFileTool / CreateFileTool (root_path, unsafe_mode)
\* on any a.txt
InitFileTools ==
    /\ InitServer
    /\ passed = ToolsPassed
    /\ AdapterTools = MCPAdapter_init(passed)
    /\ call = NoCall
    /\ ret = NoCall
    /\ unsafe_mode \in BOOLEAN
    /\ \E content \in Texts(MaxChars) : fs = Files(content)

\* what the caller keeps of a FileResult
Returned(r) == [text |-> r.text, sync |-> r.sync, opened |-> r.opened]

\* modify_tool.run(file_path, start_line, end_line, new_content)
ModifyFile(file_path, start_line, end_line, new_content) ==
    /\ call = NoCall
    /\ call' = [op |-> "modify_file", file_path |-> file_path,
                start_line |-> start_line, end_line |-> end_line,
                new_content |-> new_content, before |-> fs]
    /\ LET r == modify_file(fs, unsafe_mode, file_path, start_line, end_line, new_content)
       IN ret' = Returned(r) /\ fs' = r.fs
    /\ UNCHANGED <<serverVars, passed, AdapterTools, unsafe_mode>>

\* read_tool.run(file_path, start_line, end_line)
ReadFile(file_path, start_line, end_line) ==
    /\ call = NoCall
    /\ call' = [op |-> "read_file", file_path |-> file_path,
                start_line |-> start_line, end_line |-> end_line, before |-> fs]
    /\ LET r == read_file(fs, unsafe_mode, file_path, start_line, end_line)
       IN ret' = Returned(r) /\ fs' = r.fs
    /\ UNCHANGED <<serverVars, passed, AdapterTools, unsafe_mode>>

\* create_tool.run(file_path, content, return_content)
CreateFile(file_path, content, return_content) ==
    /\ call = NoCall
    /\ call' = [op |-> "create_file", file_path |-> file_path,
                content |-> content, return_content |-> return_content, before |-> fs]
    /\ LET r == create_file(fs, unsafe_mode, file_path, content, return_content)
       IN ret' = Returned(r) /\ fs' = r.fs
    /\ UNCHANGED <<serverVars, passed, AdapterTools, unsafe_mode>>

NextFile ==
    \/ /\ call = NoCall
       /\ \E start_line \in StartLines, new_content \in NewContents :
             \E end_line \in EndLines(start_line) :
                 ModifyFile(MainPath, start_line, end_line, new_content)
    \/ /\ call = NoCall
       /\ \E file_path \in OtherPaths : ModifyFile(file_path, 1, 1, <<"a">>)
    \/ /\ call = NoCall
       /\ \E file_path \in FilePaths, start_line \in {1, 2},
                end_line \in {JNull, JInt(1), JInt(3)} :
             ReadFile(file_path, start_line, end_line)
    \/ /\ call = NoCall
       /\ \E file_path \in FilePaths, content \in NewContents,
                return_content \in BOOLEAN :
             CreateFile(file_path, content, return_content)

SpecFile == InitFileTools /\ [][NextFile]_vars

----------------------------------------------------------------------------
(* Fairness: the event loop runs every task that is ready.  The main task  *)
(* is always ready in run_message_loop (receive() never waits, a handler   *)
(* is a synchronous call that returns), so each of its steps is taken.     *)

MainStep ==
    \/ Receive
    \/ LoopIdle
    \/ ToolBegin
    \/ LoopHandle
    \/ LoopAgain
    \/ LoopExit
    \/ RunFinally

FairSpec == Spec /\ WF_vars(MainStep)

\* the steps of the task executing _read_loop
ReaderStep ==
    \/ ReaderStart
    \/ ReadEOF
    \/ \E l \in Lines : ReadLine(l)

----------------------------------------------------------------------------
(* The running server when stdin and stdout can fail: print raises when    *)
(* stdout is closed or not writable (and json.dumps when a response is not *)
(* serialisable), sys.stdin.readline raises on bytes that do not decode.   *)
(* Each send and each readline may fail or not.                            *)

\* mutant of LoopSendFails: the loop has no `except Exception`, the error
\* ends it through the finally clause
LoopSendFails_stops ==
    /\ mpc = "tool" \/ (mpc = "got" /\ cur # NoMsg /\ ~RunsTool(cur.msg))
    /\ cur # NoMsg
    /\ handle_message(cur.msg).resp # JNull
    /\ hmsg' = cur.msg
    /\ hout' = handle_message(cur.msg)
    /\ cur' = NoMsg
    /\ stop
    /\ mpc' = "finally"
    /\ UNCHANGED <<apiVars, received, queue, stdout, lines, startCalls, exit>>

\* the handler returns a response and send(response) raises: the loop's
\* `except Exception` logs the error, then the next `while self._running`
LoopSendFails ==
    /\ mpc = "tool" \/ (mpc = "got" /\ cur # NoMsg /\ ~RunsTool(cur.msg))
    /\ cur # NoMsg
    /\ handle_message(cur.msg).resp # JNull
    /\ hmsg' = cur.msg
    /\ hout' = handle_message(cur.msg)
    /\ cur' = NoMsg
    /\ mpc' = "loop"
    /\ UNCHANGED <<apiVars, received, running, queue, stdout, lines, rpc,
                   startCalls, stopCalls, exit>>

\* where the reader is after an exception reached `except Exception`:
\* in asyncio.sleep(0.1) when _running, else through break and finally
ReaderCaught(r) == IF r THEN "sleeping" ELSE "done"

\* readline raises (UnicodeDecodeError, ValueError): no line is returned
ReadRaises ==
    /\ rpc = "reading"
    /\ LoopFree
    /\ rpc' = ReaderCaught(running)
    /\ UNCHANGED <<apiVars, received, running, queue, stdout, lines, mpc, cur, hmsg, hout,
                   startCalls, stopCalls, exit>>

\* readline returned a malformed line and the send of the parse error raises
ParseErrorSendFails ==
    /\ rpc = "reading"
    /\ LoopFree
    /\ Len(lines) < MaxLines
    /\ lines' = Append(lines, BadLine)
    /\ rpc' = ReaderCaught(running)
    /\ UNCHANGED <<apiVars, received, running, queue, stdout, mpc, cur, hmsg, hout,
                   startCalls, stopCalls, exit>>

\* the sleep is over: break, and the finally clause clears _running
ReaderWakes ==
    /\ rpc = "sleeping"
    /\ LoopFree
    /\ running' = FALSE
    /\ rpc' = "done"
    /\ UNCHANGED <<apiVars, received, queue, stdout, lines, mpc, cur, hmsg, hout,
                   startCalls, stopCalls, exit>>

\* the lines a client sends here: a malformed line, a request that runs a
\* tool, a request that runs none, a notification that gets no response
FaultLines ==
    {BadLine,
     JsonLine(Message(JInt(0), JStr("tools/call"),
                      Object([name |-> JStr("dummy_tool"),
                              arguments |-> JObj([query |-> JStr("q")])]))),
     JsonLine(Message(JInt(1), JStr("initialize"), Absent)),
     JsonLine(Message(Absent, JStr("initialize"), Absent))}

NextFault ==
    \/ RunStart
    \/ StartFails
    \/ Receive
    \/ LoopIdle
    \/ ToolBegin
    \/ LoopHandle
    \/ LoopSendFails
    \/ LoopAgain
    \/ LoopExit
    \/ Cancel
    \/ RunFinally
    \/ ReaderStart
    \/ ReadEOF
    \/ ReadRaises
    \/ ParseErrorSendFails
    \/ ReaderWakes
    \/ \E l \in FaultLines : ReadLine(l)

SpecFault == Init /\ [][NextFault]_vars

\* the steps of the main task, a failing send among them
MainStepFault == MainStep \/ LoopSendFails

FairSpecFault == SpecFault /\ WF_vars(MainStepFault)

----------------------------------------------------------------------------
(* Properties *)

\* the `id` of a message, None when it has none
IdOf(m) == IF IsDict(m) THEN Get(m, "id", JNull) ELSE JNull

\* the `method` of a message, None when it has none
MethodOf(m) == IF IsDict(m) THEN Get(m, "method", JNull) ELSE JNull

\* the method is a key of the dispatch table
RegisteredMethod(m) == MethodOf(m).t = "str" /\ MethodOf(m).v \in RequestHandlers

\* a message with a method and an id
IsRequest(m) == IsDict(m) /\ Truthy(MethodOf(m)) /\ IdOf(m) # JNull

\* a message with a method and no id
IsNotification(m) == IsDict(m) /\ Truthy(MethodOf(m)) /\ IdOf(m) = JNull

IsErrorResponse(r) == r # JNull /\ "error" \in DOMAIN r /\ "result" \notin DOMAIN r

IsResultResponse(r) == r # JNull /\ "result" \in DOMAIN r /\ "error" \notin DOMAIN r

\* the response carries exactly the id of the message (no id when it has none)
CarriesId(r, m) ==
    IF IdOf(m) # JNull THEN "id" \in DOMAIN r /\ r.id = IdOf(m) ELSE "id" \notin DOMAIN r

Called == hmsg # NoCall

\* params.name of a message, None when there is none
ParamsName(m) ==
    LET params == IF IsDict(m) THEN Get(m, "params", JNull) ELSE JNull
    IN IF IsDict(params) THEN Get(params, "name", JNull) ELSE JNull

\* C1: a request (non-null id) for a registered method gets one response
\* with the request's id: a result response when the handler returns, an
\* error response when it raises.
C1_RequestAnsweredWithItsId ==
    (Called /\ IsRequest(hmsg) /\ RegisteredMethod(hmsg)) =>
        /\ hout.resp # JNull
        /\ "id" \in DOMAIN hout.resp
        /\ hout.resp.id = IdOf(hmsg)
        /\ hout.handler = MethodOf(hmsg).v
        /\ IF hout.exc.ok THEN IsResultResponse(hout.resp) ELSE IsErrorResponse(hout.resp)

\* C1 witness: a tools/call request with id 0 whose tool raised
C1_Witness ==
    /\ Called /\ IsRequest(hmsg) /\ IdOf(hmsg) = JInt(0)
    /\ MethodOf(hmsg) = JStr("tools/call")
    /\ ~hout.exc.ok /\ hout.ran = {"error_tool"}
    /\ hout.resp.id = JInt(0)

\* C2: a notification (a method, no id) gets no response from
\* _handle_message, whatever the method and whatever the handler does, and
\* the message loop writes nothing for it.
C2_NotificationGetsNoResponse ==
    /\ (Called /\ IsNotification(hmsg)) => hout.resp = JNull
    /\ \A i \in DOMAIN stdout :
          stdout[i].by = "loop" => ~IsNotification(lines[stdout[i].line].value)

\* C3: the responses the message loop writes are in the order their requests
\* were read, each carrying the id of its request.
C3_ResponsesInRequestOrder ==
    /\ \A i, j \in DOMAIN stdout :
          (i < j /\ stdout[i].by = "loop" /\ stdout[j].by = "loop")
              => stdout[i].line < stdout[j].line
    /\ \A i \in DOMAIN stdout :
          stdout[i].by = "loop" =>
              /\ lines[stdout[i].line].kind = "json"
              /\ CarriesId(stdout[i].msg, lines[stdout[i].line].value)

\* C3 witness: the response to a tools/call is followed by the response to
\* the request read right after it, with all lines read and stdin still open
C3_Witness ==
    \E i, j \in DOMAIN stdout :
        /\ i < j /\ stdout[i].by = "loop" /\ stdout[j].by = "loop"
        /\ MethodOf(lines[stdout[i].line].value) = JStr("tools/call")
        /\ stdout[j].line = stdout[i].line + 1
        /\ IsRequest(lines[stdout[j].line].value)
        /\ Len(lines) = MaxLines /\ rpc = "reading"

\* C4: an exception raised while the handler is looked up or runs is caught:
\* the response is an Internal error (-32603) whose message is "Internal
\* error: " followed by the exception's text, with the id of the message;
\* a tools/call without a name, for an unregistered tool, with arguments
\* that do not fit, or whose tool fails, all raise.
C4_ExceptionsBecomeInternalError ==
    Called =>
        /\ ~hout.exc.ok =>
              /\ hout.exc.type \in ExceptionTypes
              /\ IsErrorResponse(hout.resp)
              /\ hout.resp.error.code = INTERNAL_ERROR
              /\ hout.resp.error.message = <<"Internal error: ">> \o hout.exc.text
              /\ CarriesId(hout.resp, hmsg)
        /\ (MethodOf(hmsg) = JStr("tools/call") /\ IsDict(Get(hmsg, "params", JObj(EmptyDict))))
              => LET params == Get(hmsg, "params", JObj(EmptyDict))
                     name == Get(params, "name", JNull)
                     arguments == Get(params, "arguments", JObj(EmptyDict))
                 IN /\ ~Truthy(name) =>
                          ~hout.exc.ok /\ hout.exc.text = <<"Tool name is required">>
                    /\ (Truthy(name) /\ ~(Hashable(name) /\ Registered(name)))
                          => ~hout.exc.ok /\ hout.ran = {}
                    /\ (Truthy(name) /\ Hashable(name) /\ Registered(name)
                            /\ (~IsDict(arguments) \/ name = JStr("error_tool")))
                          => ~hout.exc.ok

\* C4 witness: a tools/call request without params.name
C4_Witness ==
    /\ Called /\ IsRequest(hmsg) /\ MethodOf(hmsg) = JStr("tools/call")
    /\ "params" \in DOMAIN hmsg.v /\ IsDict(hmsg.v["params"])
    /\ "name" \notin DOMAIN hmsg.v["params"].v
    /\ hout.resp.error.code = INTERNAL_ERROR

\* a well-formed JSON-RPC 2.0 response
WellFormed(r) ==
    /\ "jsonrpc" \in DOMAIN r /\ r.jsonrpc = "2.0"
    /\ ("result" \in DOMAIN r) # ("error" \in DOMAIN r)
    /\ "error" \in DOMAIN r =>
          /\ DOMAIN r.error \subseteq {"code", "message", "data"}
          /\ "code" \in DOMAIN r.error
          /\ r.error.code \in {PARSE_ERROR, INVALID_REQUEST, METHOD_NOT_FOUND, INTERNAL_ERROR}
          /\ "message" \in DOMAIN r.error

\* C5: everything written to stdout, by the message loop or by the reader,
\* is a JSON-RPC 2.0 object with exactly one of result and error, and every
\* error has one of the four codes and a message.
C5_OutputWellFormed ==
    \A i \in DOMAIN stdout : WellFormed(stdout[i].msg)

\* C5 witness: stdout holds a result, a loop-written error and a
\* reader-written parse error
C5_Witness ==
    /\ \E i \in DOMAIN stdout : stdout[i].by = "reader"
    /\ \E i \in DOMAIN stdout : stdout[i].by = "loop" /\ "result" \in DOMAIN stdout[i].msg
    /\ \E i \in DOMAIN stdout : stdout[i].by = "loop" /\ "error" \in DOMAIN stdout[i].msg

\* C6: a request whose method is not in the dispatch table is answered with
\* Method not found (-32601), the method's name in the message and the
\* request's id; no handler is called and no tool runs.
C6_UnknownMethod ==
    (Called /\ IsRequest(hmsg) /\ Hashable(MethodOf(hmsg)) /\ ~RegisteredMethod(hmsg)) =>
        /\ IsErrorResponse(hout.resp)
        /\ hout.resp.error.code = METHOD_NOT_FOUND
        /\ PyStr(MethodOf(hmsg)) \in Range(hout.resp.error.message)
        /\ hout.resp.id = IdOf(hmsg)
        /\ hout.handler = "none"
        /\ hout.ran = {}

\* C6 witness: the request {"id": 1, "method": "bogus", params: a tools/call
\* for dummy_tool}
C6_Witness ==
    /\ Called /\ IdOf(hmsg) = JInt(1) /\ MethodOf(hmsg) = JStr("bogus")
    /\ ParamsName(hmsg) = JStr("dummy_tool")
    /\ hout.resp.error.message = <<"Method not found: ", "bogus">>

\* C7: a JSON object without a method (absent, null or empty) is answered
\* with Invalid Request (-32600), carrying the id when there is one; no
\* handler is called and no tool runs.
C7_MissingMethod ==
    (Called /\ IsDict(hmsg) /\ ~Truthy(MethodOf(hmsg))) =>
        /\ IsErrorResponse(hout.resp)
        /\ hout.resp.error.code = INVALID_REQUEST
        /\ CarriesId(hout.resp, hmsg)
        /\ hout.handler = "none"
        /\ hout.ran = {}

\* C7 witness: an object with id "a", no method, and tools/call params
C7_Witness ==
    /\ Called /\ IsDict(hmsg) /\ "method" \notin DOMAIN hmsg.v
    /\ IdOf(hmsg) = JStr("a")
    /\ ParamsName(hmsg) = JStr("error_tool")
    /\ hout.resp.id = JStr("a")

\* the reader has just read line n
JustRead(n) == Len(lines) = n - 1 /\ Len(lines') = n

\* where line n is: on the queue, held by the loop, or neither
Pending(n) == (\E k \in DOMAIN queue : queue[k].line = n) \/ cur.line = n

\* C8: a line that json.loads rejects gets exactly one parse-error response
\* from the reader (-32700, "Parse error", no id) and is never enqueued; the
\* reader goes on to the next readline with the transport still running,
\* and every line that parses, also after a rejected one, is enqueued.
C8_ParseErrorAndContinue ==
    /\ [](\A n \in DOMAIN lines :
            lines[n].kind = "bad" =>
                /\ Cardinality({i \in DOMAIN stdout : stdout[i].line = n}) = 1
                /\ \A i \in DOMAIN stdout :
                      stdout[i].line = n =>
                          /\ stdout[i].by = "reader"
                          /\ stdout[i].msg.error.code = PARSE_ERROR
                          /\ stdout[i].msg.error.message = <<"Parse error">>
                          /\ "id" \notin DOMAIN stdout[i].msg
                /\ ~Pending(n))
    /\ [][\A n \in 1..MaxLines :
            /\ (JustRead(n) /\ lines'[n].kind = "bad") =>
                  /\ Len(stdout') = Len(stdout) + 1
                  /\ queue' = queue
                  /\ running /\ running' /\ rpc' = "reading"
            /\ (JustRead(n) /\ lines'[n].kind = "json") =>
                  /\ queue' = Append(queue, [line |-> n, msg |-> lines'[n].value])
                  /\ stdout' = stdout]_vars

\* C8 witness: a rejected line was answered, and the valid line read after
\* it is on the queue
C8_Witness ==
    \E n \in DOMAIN lines :
        /\ lines[n].kind = "bad"
        /\ \E i \in DOMAIN stdout : stdout[i].line = n
        /\ n + 1 \in DOMAIN lines
        /\ \E k \in DOMAIN queue : queue[k].line = n + 1
        /\ running

\* run() is over: the transport is stopped and the reader task is finished
Finished ==
    /\ mpc = "done"
    /\ exit \in {"returned", "cancelled"}
    /\ ~running
    /\ rpc \in {"done", "cancelled"}
    /\ stopCalls >= 1

\* C9: once the reader has seen end-of-stream, the message loop exits,
\* stop() is called and run() ends with _running false and the reader task
\* finished; run() returns unless its task was cancelled.
C9_EofEndsRun ==
    /\ (rpc = "done") ~> (Finished /\ rpc = "done")
    /\ []((rpc = "done" /\ mpc = "done" /\ exit # "cancelled") => exit = "returned")

\* C9 witness: the reader saw end-of-stream and run() has returned
C9_Witness ==
    /\ rpc = "done" /\ Finished /\ exit = "returned"
    /\ Len(lines) > 0

\* C10: run() calls transport.start() once, and transport.stop() on each
\* way out: after the loop ended normally, after start() raised, after a
\* cancellation.  (The loop's own finally clause has stopped the transport
\* once already, so a run that entered the loop ends with two stop() calls.)
C10_StartOnceStopAlways ==
    /\ startCalls = IF mpc = "created" THEN 0 ELSE 1
    /\ mpc = "done" <=> exit # "none"
    /\ mpc \in {"finally", "finally_cancelled"} => stopCalls = 1
    /\ mpc = "done" =>
          /\ stopCalls = IF rpc = "none" THEN 1 ELSE 2
          /\ ~running

\* C10 witness: run() was cancelled and the transport was stopped
C10_Witness ==
    /\ mpc = "done" /\ exit = "cancelled" /\ stopCalls = 2
    /\ rpc = "cancelled"

\* C11: when transport.start() raises an unexpected exception, run() stops
\* the transport and re-raises the exception to its caller.
C11_UnexpectedExceptionReRaised ==
    (mpc = "done" /\ rpc = "none") => (stopCalls = 1 /\ exit = "raised")

RECURSIVE EnqueueOrder(_)
\* the numbers of the first n lines that parsed, i.e. that the reader put on
\* the queue, in the order it did
EnqueueOrder(n) ==
    IF n = 0 THEN <<>>
    ELSE IF lines[n].kind = "json"
         THEN Append(EnqueueOrder(n - 1), n)
         ELSE EnqueueOrder(n - 1)

\* C13: the messages receive() has returned, followed by those still on the
\* queue, are the enqueued messages in enqueue order, each once; the message
\* returned is the parsed line itself; a receive() on an empty queue returns
\* None at once (the call is a step that is always possible) and leaves the
\* queue as it was, and one on a non-empty queue takes its head.
C13_ReceiveInOrderOnceNoWait ==
    /\ [](/\ received \o [k \in DOMAIN queue |-> queue[k].line]
                = EnqueueOrder(Len(lines))
          /\ cur # NoMsg => cur.msg = lines[cur.line].value
          /\ mpc = "recv" => ENABLED Receive)
    /\ [][mpc = "recv" /\ mpc' = "got" =>
            IF queue = <<>>
            THEN cur' = NoMsg /\ queue' = queue /\ received' = received
            ELSE /\ cur' = Head(queue)
                 /\ queue' = Tail(queue)
                 /\ received' = Append(received, Head(queue).line)]_vars

\* two messages were returned in turn, and the next call found the queue empty
C13_Witness ==
    /\ Len(received) = 2
    /\ mpc = "got"
    /\ cur = NoMsg
    /\ queue = <<>>

\* the registered tool names, i.e. the keys of self.tools
RegisteredNames == DOMAIN AdapterTools.at

\* the call names a tool by a string that is not a registered name
NamesUnregistered(tool_name) == tool_name.t = "str" /\ tool_name.v \notin RegisteredNames

\* a ValueError "Tool '<name>' not found. Available tools: [...]" whose list
\* holds every registered name, each once, and nothing else
IsNotFound(r, tool_name) ==
    /\ ~r.ok
    /\ r.type = "ValueError"
    /\ Len(r.text) = 3 + Cardinality(RegisteredNames)
    /\ r.text[2] = tool_name.v
    /\ r.text[3] = "' not found. Available tools: "
    /\ \A n \in RegisteredNames : \E k \in 4..Len(r.text) : r.text[k] = n

\* the tool name of a tools/call whose params give one (None otherwise)
CallToolName(c) ==
    IF c.op = "tools/call" /\ IsDict(c.params) THEN Get(c.params, "name", JNull) ELSE JNull

\* C14: execute_tool with a name that is not registered raises the not-found
\* ValueError, which lists all registered tool names, and runs no tool; so
\* does the tools/call handler when the request names an unregistered tool.
C14_UnknownToolNotFound ==
    /\ call # NoCall /\ call.op = "execute_tool" /\ NamesUnregistered(call.name)
          => IsNotFound(ret, call.name) /\ ret.ran = {}
    /\ call # NoCall /\ Truthy(CallToolName(call)) /\ NamesUnregistered(CallToolName(call))
          => IsNotFound(ret, CallToolName(call)) /\ ret.ran = {}

\* "dummy_tool" was asked of an adapter that holds two other tools
C14_Witness ==
    /\ RegisteredNames = {"error_tool", "type_error_tool"}
    /\ call # NoCall
    /\ call.op = "execute_tool"
    /\ call.name = JStr("dummy_tool")
    /\ IsDict(call.arguments)
    /\ IsNotFound(ret, call.name)

\* a ValueError "Invalid arguments for tool '<name>': ..."
IsInvalidArguments(r) ==
    ~r.ok /\ r.type = "ValueError" /\ r.text[1] = "Invalid arguments for tool '"

\* the arguments do not fit the parameters of the tool's run: one without a
\* default is missing, or one it does not have is given
ShapeMismatch(tool, arguments) ==
    \/ tool.needs \ DOMAIN arguments.v # {}
    \/ DOMAIN arguments.v \ tool.accepts # {}

\* C15: execute_tool reports arguments that do not fit the tool's parameters
\* as InvalidArguments, and a failure raised by the body of the tool's run
\* reaches the caller as the body raised it, with its type and message, and
\* not as InvalidArguments.
C15_OnlyShapeMismatchIsInvalidArguments ==
    call # NoCall /\ call.op = "execute_tool" /\ Registered(call.name)
        /\ IsDict(call.arguments)
    => LET tool == AdapterTools.at[call.name.v]
       IN /\ ShapeMismatch(tool, call.arguments) => IsInvalidArguments(ret) /\ ret.ran = {}
          /\ ~ShapeMismatch(tool, call.arguments) /\ ~RunBody(tool, call.arguments.v).ok
                => ret = RunBody(tool, call.arguments.v) /\ ~IsInvalidArguments(ret)

\* the tools/list handler was called and returned `tools`
Listed == call # NoCall /\ call.op = "tools/list" /\ ret.ok

\* the last tool of the list passed that has this name
LastPassed(n) ==
    passed[CHOOSE i \in DOMAIN passed :
              passed[i].name = n /\ \A j \in DOMAIN passed : j > i => passed[j].name # n]

Validated ==
    /\ call # NoCall
    /\ call.op = "validate_arguments"
    /\ call.name.t = "str"
    /\ IsDict(call.arguments)

\* C17: validate_arguments returns False when the tool is unknown or a name
\* of its schema's `required` is not a key of the arguments, and True
\* otherwise; it runs no tool and leaves the adapter's tools as they were.
C17_ValidateIsPureCheck ==
    /\ [](Validated =>
            /\ ret.ok
            /\ ret.ran = {}
            /\ ret.value =
                 (/\ \E i \in DOMAIN passed : passed[i].name = call.name.v
                  /\ \A k \in DOMAIN LastPassed(call.name.v).parameters.required :
                        LastPassed(call.name.v).parameters.required[k]
                            \in DOMAIN call.arguments.v))
    /\ [][call' # NoCall /\ call'.op = "validate_arguments" => passed' = passed]_vars

\* a known tool, its required "query" missing: False
C17_Witness ==
    /\ Validated
    /\ call.name = JStr("dummy_tool")
    /\ Registered(call.name)
    /\ call.arguments = JObj([limit |-> JInt(10)])
    /\ ret = Ok(FALSE, {})

\* a file tool was called
FileCalled == call # NoCall /\ call.op \in {"read_file", "modify_file", "create_file"}

\* the location file_path stands for: joined to the root unless absolute,
\* parent references and symbolic links followed
TargetOf(file_path) == Walk(IF file_path.abs THEN <<>> ELSE root_path, file_path.parts)

\* modify_file was called and returned its success message
Modified ==
    /\ call # NoCall
    /\ call.op = "modify_file"
    /\ ret.text[1] = "SUCCESS: File '"

\* the lines the next read_file or modify_file call finds in the file
NextSees == get_lines(fs[TargetOf(call.file_path)])

\* C18: after a successful modify_file the next operation reads the lines
\* old[1..s-1] ++ new_lines ++ old[e+1..n] if e >= s, and
\* old[1..s-1] ++ new_lines ++ old[s..n] if e < s.
C18_ModifyLeavesExpectedLines ==
    Modified =>
        LET old == get_lines(call.before[TargetOf(call.file_path)])
            n == Len(old)
            s == call.start_line
            e == call.end_line
            new_lines == splitlines(call.new_content)
        IN NextSees = SubSeq(old, 1, s - 1) \o new_lines
                          \o (IF e >= s THEN SubSeq(old, e + 1, n) ELSE SubSeq(old, s, n))

\* C19: the window a successful modify_file returns shows, under each
\* number N, line N of the file as the next call reads it, and its "Total
\* lines in file now" is the number of lines the next call reads.
C19_WindowMatchesFile ==
    Modified =>
        /\ \A k \in DOMAIN ret.sync.entries :
              /\ ret.sync.entries[k].n \in DOMAIN NextSees
              /\ ret.sync.entries[k].content = NextSees[ret.sync.entries[k].n]
        /\ ret.sync.total = Len(NextSees)

\* the call was answered with an ERROR that says "Access Denied"
Denied ==
    /\ ret.text[1] \in {"ERROR: Tool execution failed for '",
                        "ERROR: Tool excution failed for '"}
    /\ \E k \in DOMAIN ret.text : ret.text[k] = "Access Denied: File path '"

\* the files outside the root are those there were, with their contents
OutsideUntouched ==
    \A l \in DOMAIN fs \cup DOMAIN call.before :
        ~InsideRoot(l) => l \in DOMAIN fs /\ l \in DOMAIN call.before /\ fs[l] = call.before[l]

\* C20: in safe mode a read_file, modify_file or create_file call whose
\* file_path stands for a location outside the root returns an ERROR with
\* "Access Denied", opens no file outside the root and leaves the files
\* outside the root as they were.
C20_SafeModeDeniesOutside ==
    FileCalled /\ ~unsafe_mode /\ call.file_path.str # ""
        /\ ~InsideRoot(TargetOf(call.file_path))
    => /\ Denied
       /\ \A l \in ret.opened : InsideRoot(l)
       /\ OutsideUntouched

\* create_file "../new.txt" in safe mode: denied, and no /new.txt
C20_Witness ==
    /\ FileCalled
    /\ call.op = "create_file"
    /\ call.file_path.str = "../new.txt"
    /\ ~unsafe_mode
    /\ Denied
    /\ <<"new.txt">> \notin DOMAIN fs

----------------------------------------------------------------------------
(* The message loop and shutdown *)

\* the response to input line n, if its handler makes one, was written by
\* the message loop
ResponseSent(n) ==
    LET r == handle_message(lines[n].value)
    IN r.resp # JNull =>
          \E i \in DOMAIN stdout :
             stdout[i].by = "loop" /\ stdout[i].line = n /\ stdout[i].msg = r.resp

\* a message was dequeued and its handler has not returned yet
InFlight == cur # NoMsg

\* C21: at most one handler invocation is in flight: of the messages
\* dequeued so far, all but the one the loop holds have been handled and
\* their responses written, and the loop dequeues a message only when it
\* holds none.
C21_OneHandlerInFlight ==
    /\ [](\A k \in DOMAIN received :
             (k < Len(received) \/ ~InFlight) => ResponseSent(received[k]))
    /\ [](InFlight => mpc \in {"got", "tool"} /\ cur.line = received[Len(received)])
    /\ [][Len(received') > Len(received) => ~InFlight]_vars

\* C21 witness: the second message dequeued is in flight, a third one waits
\* on the queue, and the response to the first one is written
C21_Witness ==
    /\ Len(received) = 2 /\ InFlight /\ queue # <<>>
    /\ handle_message(lines[received[1]].value).resp # JNull
    /\ ResponseSent(received[1])

\* the message loop has ended after the reader saw end-of-stream
StoppedAfterEof == mpc \in {"finally", "done"} /\ rpc = "done" /\ startCalls = 1

\* C22: when the message loop has ended after end-of-stream, every line
\* the reader enqueued has been dequeued and handled and its response is
\* written: nothing is left on the queue.
C22_QueuedRequestsAnswered ==
    StoppedAfterEof =>
        /\ queue = <<>>
        /\ \A n \in DOMAIN lines :
              lines[n].kind = "json" => n \in Range(received) /\ ResponseSent(n)

\* C23: while the transport is running and the message loop is polling,
\* the reader task is able to run: the task that start() created is ready
\* from its creation (unlike a reader that waits for a line, it depends on
\* no input), so it takes its first step and goes on to read stdin.
C23_ReaderMakesProgress ==
    (running /\ rpc = "created") ~> (rpc # "created")

\* C24: while a tools/call handler is executing a tool, the reader task is
\* still serviced: a reader that is not finished can take its next step
\* (start, read and enqueue a line, answer a malformed line).
C24_ReaderServicedDuringTool ==
    (mpc = "tool" /\ rpc \in {"created", "reading"}) => ENABLED ReaderStep

\* C25: stdout keeps the order of the input lines across both writers: a
\* parse-error response (written by the reader) and a response to a request
\* (written by the message loop) appear in the order of their lines.
C25_OutputInLineOrder ==
    \A i, j \in DOMAIN stdout :
       (i < j /\ stdout[i].by # stdout[j].by) => stdout[i].line < stdout[j].line

\* input line n is on the queue
Queued(n) == \E i \in DOMAIN queue : queue[i].line = n

\* input line n was dequeued and its handler has returned
Handled(n) == n \in Range(received) /\ ~(InFlight /\ cur.line = n)

\* the handler of line n made a response and the send of it raised
SendFailed(n) == Handled(n) /\ ~ResponseSent(n)

\* C26: when send raises inside an iteration of the message loop, the loop
\* goes on: the step leaves _running, the queue and the reader as they are
\* and returns to the loop's test; and while the transport stays running,
\* every message queued behind a failed one is dequeued and handled.
C26_LoopContinuesAfterError ==
    /\ [][(InFlight /\ cur' = NoMsg /\ hout'.resp # JNull /\ stdout' = stdout)
            => (running' = running /\ queue' = queue /\ rpc' = rpc /\ mpc' = "loop")]_vars
    /\ \A n \in 1..MaxLines :
          (Queued(n) /\ \E k \in 1..(n - 1) : SendFailed(k))
              ~> (Handled(n) \/ ~running)

\* C26 witness: the send for one line failed, and a later line was handled
\* and answered with the transport still running
C26_Witness ==
    /\ running
    /\ \E n \in DOMAIN lines : \E k \in 1..(n - 1) :
          /\ SendFailed(k)
          /\ Handled(n)
          /\ handle_message(lines[n].value).resp # JNull
          /\ ResponseSent(n)

\* C27: a handler in flight when _running is cleared runs to completion and
\* its response is sent before stop(): no stop() is called while a message
\* is in flight, the step that ends the flight writes the response, and
\* once stop() was called every dequeued message has been handled and
\* answered.
C27_InFlightHandlerCompletes ==
    /\ [](stopCalls >= 1 =>
             ~InFlight /\ \A k \in DOMAIN received : ResponseSent(received[k]))
    /\ [][InFlight => stopCalls' = stopCalls]_vars
    /\ [][(InFlight /\ ~InFlight') =>
             (hmsg' = cur.msg /\ hout' = handle_message(cur.msg)
              /\ (hout'.resp # JNull =>
                     stdout' = Append(stdout, [by |-> "loop", line |-> cur.line,
                                               msg |-> hout'.resp, eol |-> TRUE])))]_vars

\* C27 witness: the reader saw end-of-stream and cleared _running while the
\* loop holds a dequeued request whose handler has not returned yet
C27_Witness ==
    /\ InFlight /\ ~running /\ rpc = "done" /\ stopCalls = 0
    /\ handle_message(cur.msg).resp # JNull

\* C28: stop() is idempotent.  After a stop() _running is false and the
\* reader task is finished (or was never created, when start() raised);
\* from then on nothing is read, enqueued or written; and a further stop()
\* changes none of this and lets run() end as it would: by returning, or
\* with the cancellation that was under way.
C28_StopIdempotent ==
    /\ [](stopCalls >= 1 => ~running /\ rpc \in {"none", "done", "cancelled"})
    /\ [][stopCalls >= 1 =>
             (lines' = lines /\ queue' = queue /\ stdout' = stdout)]_vars
    /\ [][(stopCalls >= 1 /\ stopCalls' > stopCalls) =>
             (/\ running' = running /\ rpc' = rpc
              /\ stopCalls' = 2
              /\ exit' = IF mpc = "finally" THEN "returned" ELSE "cancelled")]_vars

\* C28 witness: stop() was called twice, the first call cancelled a reader
\* that had read a line and was waiting for the next
C28_Witness ==
    stopCalls = 2 /\ rpc = "cancelled" /\ lines # <<>> /\ ~running

\* C29: after an unexpected exception in the read loop of a running
\* transport the reader pauses and then retries: when its pause ends (and
\* no stop() cancelled it) it waits for the next line again and the
\* transport is still running.
C29_ReaderRetriesAfterException ==
    [][(rpc = "sleeping" /\ rpc' # "sleeping" /\ stopCalls' = stopCalls)
          => (rpc' = "reading" /\ running')]_vars

\* C30: execute_tool validates first: whenever validate_arguments returns
\* False for the tool name and arguments of an execute_tool call (or of a
\* tools/call request), the call fails with an error and the body of no
\* tool's run is executed.
C30_ExecuteValidatesFirst ==
    /\ (call # NoCall /\ call.op = "execute_tool"
          /\ validate_arguments(call.name, call.arguments) = Ok(FALSE, {}))
          => (~ret.ok /\ ret.ran = {})
    /\ (call # NoCall /\ call.op = "tools/call" /\ IsDict(call.params)
          /\ Truthy(CallToolName(call))
          /\ validate_arguments(CallToolName(call),
                                Get(call.params, "arguments", JObj(EmptyDict)))
                = Ok(FALSE, {}))
          => (~ret.ok /\ ret.ran = {})

============================================================================
